---- MODULE Spec2Model ----
(***************************************************************************)
(* ci/docker/runtime-files/clang-tidy-wrapper.py: the dispatch of the      *)
(* filtered, sorted compilation-database entries to worker threads, the    *)
(* collection of their results and the final report.                       *)
(*                                                                         *)
(* The model starts at line 98 of main(): the command line is parsed, the  *)
(* compilation database is loaded, filtered, de-duplicated and sorted, and *)
(* start_time has been read.  Threads interleave at the granularity of the *)
(* blocking calls (queue get/put, Popen, communicate, join).               *)
(***************************************************************************)
EXTENDS Integers, Sequences, FiniteSets, TLC

\* ------------------------------------------------------------------ bounds
MaxThreads == 2   \* largest --threads value explored
MaxEntries == 2   \* largest filtered work set explored
MaxTime    == 1   \* the clock is read as 0..MaxTime
MaxLoaded  == 2   \* most records of a compilation database, where all are explored

\* --threads is parsed with type=int: zero and negative values are accepted.
ThreadCounts == (0 - 1)..MaxThreads
Workers      == 1..MaxThreads
\* exit statuses of the clang-tidy subprocess: 0 is a clean run, 2 stands for
\* every nonzero status (and differs from the 1 that run_clang_tidy returns)
ReturnCodes  == {0, 2}
None         == 0   \* the sentinel put on workq once per started thread

VARIABLES
    args_threads,      \* args.threads
    filtered_entries,  \* the sorted work set (files are named by their rank)
    start_time,        \* main's time.time() of line 68
    now,               \* the value time.time() returns
    workq, resultq,    \* the two queue.Queue objects
    mpc,               \* main's position
    started,           \* threads started so far by the loop of line 106
    joined,            \* threads joined so far by line 114
    thread_results,    \* results main took from resultq (line 111)
    errors, total_runtime, wallclock_runtime, cpu_usage,
    stdout,            \* what the process printed from line 98 on
    exit_status,       \* the status the process exits with, or "running"
    wpc,               \* each worker's position
    e,                 \* each worker's current entry
    w_start_time,      \* each worker's start_time (line 46)
    num_errors,        \* each worker's num_errors (line 47)
    returncode,        \* history: file -> exit status of its subprocess, once exited
    claims,            \* history: the files pulled from workq, in order
    compdb,            \* the file args.compdb names: its state and its records
    args_filter,       \* args.filter (the empty string when not given)
    st_size,           \* file -> Path(file).stat().st_size
    entries,           \* the records json.load returned (line 72)
    filtered,          \* filtered_entries of lines 80-93, as records; from the
                       \* sort on, filtered_entries names them by their rank
    argv,              \* the command line: the --threads and --timing values
    args_timing        \* args.timing

vars == <<args_threads, filtered_entries, start_time, now, workq, resultq, mpc,
          started, joined, thread_results, errors, total_runtime,
          wallclock_runtime, cpu_usage, stdout, exit_status, wpc, e,
          w_start_time, num_errors, returncode, claims, compdb, args_filter,
          st_size, entries, filtered, argv, args_timing>>

mainVars   == <<mpc, started, joined, thread_results, errors, total_runtime,
                wallclock_runtime, cpu_usage, exit_status>>
workerVars == <<wpc, e, w_start_time, num_errors, returncode, claims>>
\* what is fixed once the work set is sorted (line 93)
argVars    == <<args_threads, filtered_entries, start_time, compdb, args_filter,
                st_size, entries, filtered, argv, args_timing>>

\* ----------------------------------------------------------- pure helpers
RECURSIVE SumOf(_, _)
SumOf(s, field) ==
    IF s = << >> THEN 0 ELSE s[1][field] + SumOf(Tail(s), field)

\* queue.Queue is FIFO: get() removes and returns the oldest item
\* (faulty variant: get() returns the newest item)
QueueFrontNewest(q) == q[Len(q)]
QueueFront(q) == Head(q)
\* (faulty variant: get() leaves the item on the queue)
QueueRestKeeps(q) == q
QueueRest(q)  == Tail(q)
\* (faulty variant: the new element goes to the front)
QueuePutFront(q, x) == <<x>> \o q
QueuePut(q, x) == Append(q, x)

\* range(args.threads): empty for a count of zero or less
\* (faulty variant: one thread too many)
NumThreadsOneMore(n) == IF n >= 0 THEN n + 1 ELSE 0
NumThreads(n) == IF n > 0 THEN n ELSE 0

\* run_clang_tidy's return value for a subprocess that exited with rc
\* (faulty variant: the exit status itself is returned)
run_clang_tidy_returncode(rc) == rc
run_clang_tidy(rc) == IF rc # 0 THEN 1 ELSE 0

\* the result tuple of line 48
ResultTuple(file, dt, ne) == [file |-> file, dt |-> dt, num_errors |-> ne]

\* line 111 takes one result per filtered entry
\* (faulty variant: one result too few is taken)
NumToCollectShort == Len(filtered_entries) - 1
NumToCollect == Len(filtered_entries)

\* lines 132-137
FinalLine(errs, total) ==
    IF errs = 0 THEN <<"Done without error">>
    ELSE <<"Done with errors in", errs, total>>
\* (faulty variant: the error count is the exit status)
ExitStatusCount(errs) == errs
ExitStatus(errs) == IF errs = 0 THEN 0 ELSE 1

\* the exit statuses seen so far, with file's added
Exited(seen, file, rc) ==
    [f \in DOMAIN seen \cup {file} |-> IF f = file THEN rc ELSE seen[f]]

\* ---------------------------------------------------------------- strings
\* A string is the sequence of its characters.  Ord gives the code points of
\* the characters in use; Python compares strings by them.
Ord == [c \in {".", "/", "B", "R", "a", "b", "c", "d", "e", "l", "n", "o", "p",
               "r", "s", "t", "x"} |->
          CASE c = "." -> 46 [] c = "/" -> 47 [] c = "B" -> 66 [] c = "R" -> 82
            [] c = "a" -> 97 [] c = "b" -> 98 [] c = "c" -> 99 [] c = "d" -> 100
            [] c = "e" -> 101 [] c = "l" -> 108 [] c = "n" -> 110
            [] c = "o" -> 111 [] c = "p" -> 112 [] c = "r" -> 114
            [] c = "s" -> 115 [] c = "t" -> 116 [] c = "x" -> 120]

\* str.lower(), character by character
LowerChar(c) == CASE c = "B" -> "b" [] c = "R" -> "r" [] OTHER -> c
Lower(s) == [i \in 1..Len(s) |-> LowerChar(s[i])]

\* str.startswith, str.endswith
StartsWith(s, p) == Len(p) <= Len(s) /\ SubSeq(s, 1, Len(p)) = p
EndsWith(s, p) ==
    Len(p) <= Len(s) /\ SubSeq(s, Len(s) - Len(p) + 1, Len(s)) = p

\* `p in s`; also re.search(p, s) for a pattern p of literal characters
Contains(s, p) ==
    \E i \in 1..(Len(s) - Len(p) + 1) : SubSeq(s, i, i + Len(p) - 1) = p

\* s < t for Python strings
RECURSIVE StrLess(_, _)
StrLess(s, t) ==
    IF t = << >> THEN FALSE
    ELSE IF s = << >> THEN TRUE
    ELSE IF s[1] # t[1] THEN Ord[s[1]] < Ord[t[1]]
    ELSE StrLess(Tail(s), Tail(t))

\* get_sdkroot(): the repository root
sdkroot == <<"/", "R">>

\* str(sdkroot / p): pathlib joins with "/" and drops a trailing slash of p
PathJoin(root, p) ==
    root \o <<"/">> \o
        (IF p # << >> /\ p[Len(p)] = "/" THEN SubSeq(p, 1, Len(p) - 1) ELSE p)

\* lines 77-78
rel_includes == << >>
rel_excludes == << <<"e", "x", "t", "e", "r", "n", "a", "l", "/">> >>

\* the files a compilation database may name
F_ext  == <<"/", "R", "/", "e", "x", "t", "e", "r", "n", "a", "l", "/", "a", ".", "c">>
F_exts == <<"/", "R", "/", "e", "x", "t", "e", "r", "n", "a", "l", "s", ".", "c">>
F_b    == <<"/", "R", "/", "s", "r", "c", "/", "b", ".", "c">>
F_B    == <<"/", "R", "/", "s", "r", "c", "/", "B", ".", "c">>
F_test == <<"/", "R", "/", "t", "e", "s", "t", "/", "c", ".", "c">>
F_pb   == <<"/", "R", "/", "s", "r", "c", "/", "d", ".", "p", "b", ".", "c", "c">>
F_out  == <<"/", "o", "/", "e", ".", "c">>
CandidateFiles == {F_ext, F_exts, F_b, F_B, F_test, F_pb, F_out}
\* a record of the database: the file and the command of one build target
Targets  == {"lib", "exe"}
Records  == [file : CandidateFiles, command : Targets]
\* --filter values: none, and patterns of literal characters
NoFilter == << >>
Filters  == {NoFilter, <<"B">>, <<"r">>, <<"t", "e", "s", "t">>}
\* file sizes on disk
SizeMaps ==
    { [f \in CandidateFiles |-> 1],
      [f \in CandidateFiles |-> IF f = F_test THEN 1 ELSE 2],
      [f \in CandidateFiles |-> IF f = F_b THEN 2 ELSE 1] }

\* Path(file).relative_to(sdkroot), line 126: defined for a file under the
\* root, where it is the path from the root on; ValueError for any other
UnderRoot(file) == StartsWith(file, sdkroot \o <<"/">>)
RelPath(file)   == SubSeq(file, Len(sdkroot) + 2, Len(file))

\* a value given on the command line: an integer literal, the word all, some
\* other text, or nothing
IntArg(n)  == [kind |-> "int", value |-> n]
TextArg    == [kind |-> "text", value |-> 0]
AllArg     == [kind |-> "all", value |-> 0]
NoArg      == [kind |-> "none", value |-> 0]
\* `if args.timing`: the default None is false, any given text is true
Truthy(arg) == arg.kind # "none"

\* the sequences over S of length at most n
RECURSIVE SeqsUpTo(_, _)
SeqsUpTo(S, n) ==
    IF n = 0 THEN {<< >>}
    ELSE LET shorter == SeqsUpTo(S, n - 1)
         IN  shorter \cup {Append(s, x) : s \in shorter, x \in S}

\* ------------------------------------------- filter, de-duplication, sort
AnyStartsWith(file, rels) ==
    \E i \in 1..Len(rels) : StartsWith(file, PathJoin(sdkroot, rels[i]))

\* the condition of line 82
\* (faulty variant: generated .pb.cc files are kept)
KeepsGenerated(file) ==
    AnyStartsWith(file, rel_includes) \/ ~ AnyStartsWith(file, rel_excludes)
Keeps(file) ==
    /\ AnyStartsWith(file, rel_includes) \/ ~ AnyStartsWith(file, rel_excludes)
    /\ ~ EndsWith(file, <<".", "p", "b", ".", "c", "c">>)

\* the condition of line 86
\* (faulty variant: neither side is lower-cased)
MatchesCase(pattern, file) == Contains(file, pattern)
Matches(pattern, file) == Contains(Lower(file), Lower(pattern))

\* lines 80-83
RECURSIVE FilterEntries(_)
FilterEntries(s) ==
    IF s = << >> THEN << >>
    ELSE (IF Keeps(s[1].file) THEN <<s[1]>> ELSE << >>)
           \o FilterEntries(Tail(s))

\* lines 85-86
RECURSIVE FilterByArg(_, _)
FilterByArg(s, pattern) ==
    IF pattern = NoFilter \/ s = << >> THEN s
    ELSE (IF Matches(pattern, s[1].file) THEN <<s[1]>> ELSE << >>)
           \o FilterByArg(Tail(s), pattern)

\* line 89: a dict keeps a key at the place of its first insertion and the
\* value of its last
LastWith(s, file) ==
    s[CHOOSE i \in 1..Len(s) :
         /\ s[i].file = file
         /\ \A j \in (i + 1)..Len(s) : s[j].file # file]
\* (faulty variant: the first value of a key is kept)
FirstWith(s, file) ==
    s[CHOOSE i \in 1..Len(s) :
         /\ s[i].file = file
         /\ \A j \in 1..(i - 1) : s[j].file # file]
DictValue(s, file) == LastWith(s, file)
RECURSIVE DedupFrom(_, _, _)
DedupFrom(s, i, seen) ==
    IF i > Len(s) THEN << >>
    ELSE IF s[i].file \in seen THEN DedupFrom(s, i + 1, seen)
    ELSE <<DictValue(s, s[i].file)>> \o DedupFrom(s, i + 1, seen \cup {s[i].file})
Dedup(s) == DedupFrom(s, 1, {})

\* line 93: the sort key and its order (tuples compare component by component)
InTestFolder(file) == Contains(file, <<"/", "t", "e", "s", "t", "/">>)
\* (faulty variant: small files first)
SortKeySmallFirst(r, sizes) ==
    [nottest |-> IF InTestFolder(r.file) THEN 0 ELSE 1,
     negsize |-> sizes[r.file],
     file    |-> r.file]
SortKey(r, sizes) ==
    [nottest |-> IF InTestFolder(r.file) THEN 0 ELSE 1,
     negsize |-> 0 - sizes[r.file],
     file    |-> r.file]
\* (faulty variant: the file name is no part of the key)
KeyLessNoName(a, b) ==
    \/ a.nottest < b.nottest
    \/ a.nottest = b.nottest /\ a.negsize < b.negsize
KeyLess(a, b) ==
    \/ a.nottest < b.nottest
    \/ a.nottest = b.nottest /\ a.negsize < b.negsize
    \/ a.nottest = b.nottest /\ a.negsize = b.negsize /\ StrLess(a.file, b.file)

\* sorted() is stable: an element goes behind the elements that are not
\* greater than it
RECURSIVE Insert(_, _, _)
Insert(s, r, sizes) ==
    IF s = << >> THEN <<r>>
    ELSE IF KeyLess(SortKey(r, sizes), SortKey(s[1], sizes)) THEN <<r>> \o s
    ELSE <<s[1]>> \o Insert(Tail(s), r, sizes)
RECURSIVE SortedFrom(_, _, _)
SortedFrom(s, i, sizes) ==
    IF i = 0 THEN << >>
    ELSE Insert(SortedFrom(s, i - 1, sizes), s[i], sizes)
Sorted(s, sizes) == SortedFrom(s, Len(s), sizes)

\* the work set of a database: lines 80-93
WorkSetOf(recs, pattern, sizes) ==
    Sorted(Dedup(FilterByArg(FilterEntries(recs), pattern)), sizes)
Ranks(s) == [i \in 1..Len(s) |-> i]

\* the databases of the runs explored from line 98 on
RunRecords == << [file |-> F_test, command |-> "lib"],
                 [file |-> F_B, command |-> "lib"],
                 [file |-> F_b, command |-> "lib"],
                 [file |-> F_out, command |-> "lib"] >>
\* a database with an entry whose file is not under the root
MixedRecords == << [file |-> F_b, command |-> "lib"],
                   [file |-> F_out, command |-> "lib"] >>
UnitSizes  == [f \in CandidateFiles |-> 1]
Database(recs) == [state |-> "ok", records |-> recs]

\* ------------------------------------------------------------------- Init
Init ==
    /\ args_threads \in ThreadCounts
    /\ argv = [threads |-> IntArg(args_threads), timing |-> NoArg]
    /\ args_timing = NoArg
    /\ \E n \in 0..MaxEntries : compdb = Database(SubSeq(RunRecords, 1, n))
    /\ args_filter = NoFilter
    /\ st_size = UnitSizes
    /\ entries = compdb.records
    /\ filtered = WorkSetOf(entries, args_filter, st_size)
    /\ filtered_entries = Ranks(filtered)
    /\ start_time = 0
    /\ now = 0
    /\ workq = << >>
    /\ resultq = << >>
    /\ mpc = "fill"
    /\ started = 0
    /\ joined = 0
    /\ thread_results = << >>
    /\ errors = 0
    /\ total_runtime = 0
    /\ wallclock_runtime = 0
    /\ cpu_usage = 0
    /\ stdout = << >>
    /\ exit_status = "running"
    /\ wpc = [w \in Workers |-> "unstarted"]
    /\ e = [w \in Workers |-> None]
    /\ w_start_time = [w \in Workers |-> 0]
    /\ num_errors = [w \in Workers |-> 0]
    /\ returncode = << >>
    /\ claims = << >>

\* ------------------------------------------------------------------ clock
Tick ==
    /\ now < MaxTime
    /\ now' = now + 1
    /\ UNCHANGED <<argVars, workq, resultq, mainVars, stdout, workerVars>>

\* ------------------------------------------------------------------- main
\* lines 98-101: all entries go on workq before any thread exists
MainFill ==
    /\ mpc = "fill"
    /\ workq' = filtered_entries
    /\ mpc' = "spawn"
    /\ UNCHANGED <<argVars, now, resultq, started, joined, thread_results,
                   errors, total_runtime, wallclock_runtime, cpu_usage,
                   stdout, exit_status, workerVars>>

\* line 107: t.start()
MainStart ==
    /\ mpc = "spawn"
    /\ started < NumThreads(args_threads)
    /\ wpc' = [wpc EXCEPT ![started + 1] = "get"]
    /\ mpc' = "sentinel"
    /\ UNCHANGED <<argVars, now, workq, resultq, started, joined,
                   thread_results, errors, total_runtime, wallclock_runtime,
                   cpu_usage, stdout, exit_status, e, w_start_time,
                   num_errors, returncode, claims>>

\* line 108: workq.put(None)
MainPutNone ==
    /\ mpc = "sentinel"
    /\ workq' = QueuePut(workq, None)
    /\ started' = started + 1
    /\ mpc' = "spawn"
    /\ UNCHANGED <<argVars, now, resultq, joined, thread_results, errors,
                   total_runtime, wallclock_runtime, cpu_usage, stdout,
                   exit_status, workerVars>>

\* the loop of line 106 is over
MainSpawned ==
    /\ mpc = "spawn"
    /\ started >= NumThreads(args_threads)
    /\ mpc' = "collect"
    /\ UNCHANGED <<argVars, now, workq, resultq, started, joined,
                   thread_results, errors, total_runtime, wallclock_runtime,
                   cpu_usage, stdout, exit_status, workerVars>>

\* line 111: one blocking resultq.get() per filtered entry
MainCollect ==
    /\ mpc = "collect"
    /\ Len(thread_results) < NumToCollect
    /\ resultq # << >>
    /\ thread_results' = Append(thread_results, QueueFront(resultq))
    /\ resultq' = QueueRest(resultq)
    /\ UNCHANGED <<argVars, now, workq, mpc, started, joined, errors,
                   total_runtime, wallclock_runtime, cpu_usage, stdout,
                   exit_status, workerVars>>

MainCollected ==
    /\ mpc = "collect"
    /\ Len(thread_results) >= NumToCollect
    /\ mpc' = "join"
    /\ UNCHANGED <<argVars, now, workq, resultq, started, joined,
                   thread_results, errors, total_runtime, wallclock_runtime,
                   cpu_usage, stdout, exit_status, workerVars>>

\* line 114: t.join() returns once the thread is over, however it ended
MainJoin ==
    /\ mpc = "join"
    /\ joined < started
    /\ wpc[joined + 1] \in {"returned", "raised"}
    /\ joined' = joined + 1
    /\ UNCHANGED <<argVars, now, workq, resultq, mpc, started, thread_results,
                   errors, total_runtime, wallclock_runtime, cpu_usage,
                   stdout, exit_status, workerVars>>

MainJoined ==
    /\ mpc = "join"
    /\ joined >= started
    /\ mpc' = "summary"
    /\ UNCHANGED <<argVars, now, workq, resultq, started, joined,
                   thread_results, errors, total_runtime, wallclock_runtime,
                   cpu_usage, stdout, exit_status, workerVars>>

\* lines 117-119
MainSummary ==
    /\ mpc = "summary"
    /\ errors' = SumOf(thread_results, "num_errors")
    /\ total_runtime' = SumOf(thread_results, "dt")
    /\ wallclock_runtime' = now - start_time
    /\ mpc' = IF Truthy(args_timing) THEN "timing" ELSE "report"
    /\ UNCHANGED <<argVars, now, workq, resultq, started, joined,
                   thread_results, cpu_usage, stdout, exit_status, workerVars>>

\* ----------------------------------------------------- the timing report
\* format_dt, lines 51-57, of a duration in whole seconds: the minutes, the
\* seconds and the milliseconds of the text (the minutes are left out of the
\* text when they are 0)
format_dt(dt) == [minutes |-> dt \div 60,
                  seconds |-> dt % 60,
                  millis  |-> (dt * 1000) % 1000]

\* e['file'] of the entry a result is about
FileName(rank) == filtered[rank].file

\* line 122: key e[1] with reverse=True puts the longer duration first
SlowerFirst(a, b) == a.dt > b.dt

\* sorted() is stable, with reverse=True too: r goes behind every result that
\* it is not put before
InsertByDt(s, r) ==
    LET k == Cardinality({i \in 1..Len(s) : ~ SlowerFirst(r, s[i])})
    IN  SubSeq(s, 1, k) \o <<r>> \o SubSeq(s, k + 1, Len(s))

RECURSIVE SortByDt(_)
SortByDt(s) ==
    IF s = << >> THEN << >>
    ELSE InsertByDt(SortByDt(SubSeq(s, 1, Len(s) - 1)), s[Len(s)])

\* line 124, for a value int() accepts or the word all
num_entries(arg, n) == IF arg.kind = "all" THEN n ELSE arg.value

\* s[:k] of line 125: a negative k counts from the end
Slice(s, k) ==
    IF k >= 0
    THEN SubSeq(s, 1, IF k < Len(s) THEN k ELSE Len(s))
    ELSE SubSeq(s, 1, IF Len(s) + k > 0 THEN Len(s) + k ELSE 0)

\* file_runtime[:num_entries]
Listed ==
    Slice(SortByDt(thread_results),
          num_entries(args_timing, Len(thread_results)))

\* the line of line 126
TimingLine(r) == <<"timing", format_dt(r.dt), RelPath(FileName(r.file))>>

\* the lines the loop of lines 125-126 prints over s: it ends at the first
\* entry whose file relative_to refuses
TimingLines(s) ==
    LET bad == {i \in 1..Len(s) : ~ UnderRoot(FileName(s[i].file))}
        k   == IF bad = {} THEN Len(s)
               ELSE (CHOOSE i \in bad : \A j \in bad : i <= j) - 1
    IN  [i \in 1..k |-> TimingLine(s[i])]

\* line 124: int() raises ValueError for text that is no integer literal;
\* line 126: relative_to raises ValueError for a file outside the root
TimingRaises ==
    \/ args_timing.kind = "text"
    \/ \E i \in 1..Len(Listed) : ~ UnderRoot(FileName(Listed[i].file))

\* lines 121-127
MainTiming ==
    /\ mpc = "timing"
    /\ ~ TimingRaises
    /\ stdout' = stdout \o << <<"Timing statistics for", args_timing>> >>
                        \o TimingLines(Listed) \o << <<"">> >>
    /\ mpc' = "report"
    /\ UNCHANGED <<argVars, now, workq, resultq, started, joined,
                   thread_results, errors, total_runtime, wallclock_runtime,
                   cpu_usage, exit_status, workerVars>>

\* lines 123-126: the header is printed, then line 124 or line 126 raises;
\* main() ends by the exception, without the statistics and the status line,
\* and the interpreter exits with status 1
MainTimingRaises ==
    /\ mpc = "timing"
    /\ TimingRaises
    /\ stdout' = stdout \o << <<"Timing statistics for", args_timing>> >>
                        \o (IF args_timing.kind = "text" THEN << >>
                            ELSE TimingLines(Listed))
    /\ mpc' = "timing_raised"
    /\ exit_status' = 1
    /\ UNCHANGED <<argVars, now, workq, resultq, started, joined,
                   thread_results, errors, total_runtime, wallclock_runtime,
                   cpu_usage, workerVars>>

\* line 129 divides by args.threads and then by wallclock_runtime
DivisionByZero == args_threads = 0 \/ wallclock_runtime = 0

\* (faulty variant: the division by args.threads is left out)
CpuUsageOfOneThread ==
    IF total_runtime = 0 THEN 0
    ELSE (total_runtime * 100) \div wallclock_runtime

\* ((total_runtime / args.threads) / wallclock_runtime) * 100, in whole percent
CpuUsage ==
    IF total_runtime = 0 THEN 0
    ELSE (total_runtime * 100) \div (args_threads * wallclock_runtime)

\* line 129 raises ZeroDivisionError: main() ends by the exception, the
\* interpreter prints the traceback and exits with status 1
MainReportRaises ==
    /\ mpc = "report"
    /\ DivisionByZero
    /\ mpc' = "raised"
    /\ exit_status' = 1
    /\ UNCHANGED <<argVars, now, workq, resultq, started, joined,
                   thread_results, errors, total_runtime, wallclock_runtime,
                   cpu_usage, stdout, workerVars>>

\* lines 129-137 and sys.exit(main())
MainReport ==
    /\ mpc = "report"
    /\ ~DivisionByZero
    /\ cpu_usage' = CpuUsage
    /\ stdout' = stdout \o
          << <<"Wallclock runtime", wallclock_runtime, total_runtime, CpuUsage>>,
             FinalLine(errors, Len(filtered_entries)) >>
    /\ exit_status' = ExitStatus(errors)
    /\ mpc' = "done"
    /\ UNCHANGED <<argVars, now, workq, resultq, started, joined,
                   thread_results, errors, total_runtime, wallclock_runtime,
                   workerVars>>

\* ------------------------------------------------ main, up to the work set
\* what lines 68-96 leave alone
loadFixed == <<args_threads, argv, args_timing, start_time, compdb, args_filter,
               st_size, now,
               workq, resultq, started, joined, thread_results, errors,
               total_runtime, wallclock_runtime, cpu_usage, stdout, workerVars>>

\* lines 71-72 raise unless the file can be opened and parsed
\* (faulty variant: only a missing file is an error)
LoadFailsIfMissing(db) == db.state = "missing"
LoadFails(db) == db.state # "ok"

\* lines 71-73
MainLoad ==
    /\ mpc = "load"
    /\ ~ LoadFails(compdb)
    /\ entries' = compdb.records
    /\ mpc' = "filter"
    /\ UNCHANGED <<loadFixed, filtered, filtered_entries, exit_status>>

\* lines 71-72: open() raises OSError for a missing or unreadable file,
\* json.load raises ValueError for one that is not JSON; main() ends by the
\* exception and the interpreter exits with status 1
MainLoadRaises ==
    /\ mpc = "load"
    /\ LoadFails(compdb)
    /\ mpc' = "load_raised"
    /\ exit_status' = 1
    /\ UNCHANGED <<loadFixed, entries, filtered, filtered_entries>>

\* lines 76-83
MainFilter ==
    /\ mpc = "filter"
    /\ filtered' = FilterEntries(entries)
    /\ mpc' = "argfilter"
    /\ UNCHANGED <<loadFixed, entries, filtered_entries, exit_status>>

\* lines 85-86
MainArgFilter ==
    /\ mpc = "argfilter"
    /\ filtered' = FilterByArg(filtered, args_filter)
    /\ mpc' = "dedup"
    /\ UNCHANGED <<loadFixed, entries, filtered_entries, exit_status>>

\* line 89
MainDedup ==
    /\ mpc = "dedup"
    /\ filtered' = Dedup(filtered)
    /\ mpc' = "sort"
    /\ UNCHANGED <<loadFixed, entries, filtered_entries, exit_status>>

\* lines 93-96
MainSort ==
    /\ mpc = "sort"
    /\ filtered' = Sorted(filtered, st_size)
    /\ filtered_entries' = Ranks(filtered')
    /\ mpc' = "fill"
    /\ UNCHANGED <<loadFixed, entries, exit_status>>

MainPrepare ==
    \/ MainLoad
    \/ MainLoadRaises
    \/ MainFilter
    \/ MainArgFilter
    \/ MainDedup
    \/ MainSort

\* ---------------------------------------------------------------- workers
\* lines 43-47 and 31: blocking workq.get(); None ends the thread, an entry is
\* timestamped and handed to run_clang_tidy, whose subprocess.Popen either
\* starts clang-tidy or raises OSError (clang-tidy cannot be executed).
\* Nothing in run_clang_tidy or worker catches the exception: the thread ends.
WorkerGet(w) ==
    /\ wpc[w] = "get"
    /\ workq # << >>
    /\ workq' = QueueRest(workq)
    /\ IF QueueFront(workq) = None
       THEN /\ wpc' = [wpc EXCEPT ![w] = "returned"]
            /\ UNCHANGED <<e, w_start_time, claims>>
       ELSE /\ \E popen \in {"running", "raised"} :
                  wpc' = [wpc EXCEPT ![w] = popen]
            /\ e' = [e EXCEPT ![w] = QueueFront(workq)]
            /\ w_start_time' = [w_start_time EXCEPT ![w] = now]
            /\ claims' = Append(claims, QueueFront(workq))
    /\ UNCHANGED <<argVars, now, resultq, mainVars, stdout, num_errors,
                   returncode>>

\* lines 32-36: communicate() returns when the subprocess has exited with rc
\* and its output decodes as UTF-8
WorkerCommunicate(w) ==
    /\ wpc[w] = "running"
    /\ \E rc \in ReturnCodes :
          /\ returncode' = Exited(returncode, e[w], rc)
          /\ num_errors' = [num_errors EXCEPT ![w] = run_clang_tidy(rc)]
          /\ stdout' = IF rc # 0
                       THEN Append(stdout, <<"Error while processing", e[w]>>)
                       ELSE stdout
    /\ wpc' = [wpc EXCEPT ![w] = "put"]
    /\ UNCHANGED <<argVars, now, workq, resultq, mainVars, e, w_start_time,
                   claims>>

\* line 32: the subprocess has exited with rc, but its output is not valid
\* UTF-8: decode raises UnicodeDecodeError before the exit status is looked at
WorkerDecodeRaises(w) ==
    /\ wpc[w] = "running"
    /\ \E rc \in ReturnCodes :
          returncode' = Exited(returncode, e[w], rc)
    /\ wpc' = [wpc EXCEPT ![w] = "raised"]
    /\ UNCHANGED <<argVars, now, workq, resultq, mainVars, stdout, e,
                   w_start_time, num_errors, claims>>

\* line 48, back to line 43: the locals are dead until the next get assigns
\* them again
WorkerPut(w) ==
    /\ wpc[w] = "put"
    /\ resultq' = QueuePut(resultq,
                           ResultTuple(e[w], now - w_start_time[w], num_errors[w]))
    /\ wpc' = [wpc EXCEPT ![w] = "get"]
    /\ e' = [e EXCEPT ![w] = None]
    /\ w_start_time' = [w_start_time EXCEPT ![w] = 0]
    /\ num_errors' = [num_errors EXCEPT ![w] = 0]
    /\ UNCHANGED <<argVars, now, workq, mainVars, stdout, returncode, claims>>

Worker(w) ==
    \/ WorkerGet(w)
    \/ WorkerCommunicate(w)
    \/ WorkerDecodeRaises(w)
    \/ WorkerPut(w)

Main ==
    \/ MainFill
    \/ MainStart
    \/ MainPutNone
    \/ MainSpawned
    \/ MainCollect
    \/ MainCollected
    \/ MainJoin
    \/ MainJoined
    \/ MainSummary
    \/ MainReportRaises
    \/ MainReport

Next ==
    \/ Tick
    \/ Main
    \/ \E w \in Workers : Worker(w)

Spec == Init /\ [][Next]_vars

\* Lines 68-96 on every database of at most MaxLoaded records, every filter
\* and every size map: the work set as a function of what was loaded.
PrepareInit ==
    /\ args_threads = 1
    /\ argv = [threads |-> IntArg(args_threads), timing |-> NoArg]
    /\ args_timing = NoArg
    /\ compdb \in {[state |-> "missing", records |-> << >>],
                   [state |-> "invalid", records |-> << >>]}
                  \cup {Database(recs) : recs \in SeqsUpTo(Records, MaxLoaded)}
    /\ args_filter \in Filters
    /\ st_size \in SizeMaps
    /\ entries = << >>
    /\ filtered = << >>
    /\ filtered_entries = << >>
    /\ start_time = 0
    /\ now = 0
    /\ workq = << >>
    /\ resultq = << >>
    /\ mpc = "load"
    /\ started = 0
    /\ joined = 0
    /\ thread_results = << >>
    /\ errors = 0
    /\ total_runtime = 0
    /\ wallclock_runtime = 0
    /\ cpu_usage = 0
    /\ stdout = << >>
    /\ exit_status = "running"
    /\ wpc = [w \in Workers |-> "unstarted"]
    /\ e = [w \in Workers |-> None]
    /\ w_start_time = [w \in Workers |-> 0]
    /\ num_errors = [w \in Workers |-> 0]
    /\ returncode = << >>
    /\ claims = << >>

PrepareSpec == PrepareInit /\ [][MainPrepare]_vars

\* ------------------------------------------ the whole run of one command
\* what parse_args leaves alone
parseFixed == <<argv, filtered_entries, compdb, args_filter, st_size, entries,
                filtered, now, workq, resultq, started, joined, thread_results,
                errors, total_runtime, wallclock_runtime, cpu_usage, stdout,
                workerVars>>

\* lines 61-68: --threads is type=int, --timing is kept as text
MainParse ==
    /\ mpc = "parse"
    /\ argv.threads.kind = "int"
    /\ args_threads' = argv.threads.value
    /\ args_timing' = argv.timing
    /\ start_time' = now
    /\ mpc' = "load"
    /\ UNCHANGED <<parseFixed, exit_status>>

\* line 66: argparse refuses a --threads value int() does not accept:
\* parser.error prints the usage and exits with status 2
MainParseRaises ==
    /\ mpc = "parse"
    /\ argv.threads.kind # "int"
    /\ mpc' = "usage"
    /\ exit_status' = 2
    /\ UNCHANGED <<parseFixed, args_threads, args_timing, start_time>>

\* the command lines: one worker or a --threads that is no number; --timing
\* absent, all, no number, or a count from -1 on; a database that is missing,
\* that is not JSON, or that holds the first entries of RunRecords or
\* MixedRecords
FullInit ==
    /\ argv \in [threads : {TextArg, IntArg(1)},
                 timing  : {NoArg, AllArg, TextArg}
                           \cup {IntArg(k) : k \in (0 - 1)..MaxEntries}]
    /\ args_threads = None
    /\ args_timing = NoArg
    /\ compdb \in {[state |-> "missing", records |-> << >>],
                   [state |-> "invalid", records |-> << >>],
                   Database(MixedRecords)}
                  \cup {Database(SubSeq(RunRecords, 1, n)) : n \in 0..MaxEntries}
    /\ args_filter = NoFilter
    /\ st_size = UnitSizes
    /\ entries = << >>
    /\ filtered = << >>
    /\ filtered_entries = << >>
    /\ start_time = 0
    /\ now = 0
    /\ workq = << >>
    /\ resultq = << >>
    /\ mpc = "parse"
    /\ started = 0
    /\ joined = 0
    /\ thread_results = << >>
    /\ errors = 0
    /\ total_runtime = 0
    /\ wallclock_runtime = 0
    /\ cpu_usage = 0
    /\ stdout = << >>
    /\ exit_status = "running"
    /\ wpc = [w \in Workers |-> "unstarted"]
    /\ e = [w \in Workers |-> None]
    /\ w_start_time = [w \in Workers |-> 0]
    /\ num_errors = [w \in Workers |-> 0]
    /\ returncode = << >>
    /\ claims = << >>

FullNext ==
    \/ Tick
    \/ MainParse
    \/ MainParseRaises
    \/ MainPrepare
    \/ Main
    \/ MainTiming
    \/ MainTimingRaises
    \/ \E w \in Workers : Worker(w)

FullSpec == FullInit /\ [][FullNext]_vars

\* ------------------------------------------------------- derived notions
RECURSIVE CountIn(_, _)
CountIn(s, x) ==
    IF s = << >> THEN 0
    ELSE (IF s[1] = x THEN 1 ELSE 0) + CountIn(Tail(s), x)

WorkSet      == {filtered_entries[i] : i \in 1..Len(filtered_entries)}
\* every result a worker has put so far, taken by main or not
Recorded     == thread_results \o resultq
RecordedFor(f) == {i \in 1..Len(Recorded) : Recorded[i].file = f}
FilesOf(s)   == [i \in 1..Len(s) |-> s[i].file]
InFlight     == {w \in Workers : wpc[w] = "running"}
Started      == {w \in Workers : wpc[w] # "unstarted"}
NonzeroExits == {f \in DOMAIN returncode : returncode[f] # 0}
AfterCollect == mpc \in {"join", "summary", "report", "done", "raised"}
AfterJoin    == mpc \in {"summary", "report", "done", "raised"}
AfterSummary == mpc \in {"report", "done", "raised"}
AfterSpawn   == mpc \notin {"fill", "spawn", "sentinel"}
\* a step of the program itself (the clock is not one)
ProgramStep  == Main \/ \E w \in Workers : Worker(w)

\* ----------------------------------------------------------------- claims

\* C1: every entry of the work set is pulled from workq exactly once: once the
\* queue is filled each entry is either still on workq or has been pulled by
\* one worker, never both and never twice; no two workers hold the same
\* entry; and when main has collected its results the files pulled are
\* exactly the work set.
ExactlyOnceClaim ==
    /\ \A i \in 1..Len(claims) : claims[i] \in WorkSet
    /\ mpc # "fill" =>
          \A f \in WorkSet : CountIn(claims, f) + CountIn(workq, f) = 1
    /\ \A w1, w2 \in Workers :
          (w1 # w2 /\ e[w1] # None) => e[w1] # e[w2]
    /\ AfterCollect => \A f \in WorkSet : CountIn(claims, f) = 1

\* two workers were started, both entries were pulled and main is about to
\* compute the summary
ExactlyOnceWitness ==
    /\ mpc = "summary"
    /\ args_threads = 2
    /\ Len(claims) = 2

\* C2: when main computes the summary (results collected, threads joined)
\* thread_results holds exactly one tuple per entry of the work set and no
\* result is left behind on resultq.
OneResultPerEntry ==
    AfterJoin =>
        /\ Len(thread_results) = Len(filtered_entries)
        /\ \A f \in WorkSet :
              Cardinality({i \in 1..Len(thread_results) :
                              thread_results[i].file = f}) = 1
        /\ resultq = << >>

\* main computes the summary of two entries whose results arrived in the
\* order opposite to their dispatch
OneResultPerEntryWitness ==
    /\ mpc = "summary"
    /\ FilesOf(thread_results) = <<2, 1>>

\* C3: with at least one worker and no subprocess still running, the run is
\* never stuck short of the final status line: either main has printed it
\* and returned, or some thread can take a step.
NeverStuck ==
    (args_threads >= 1 /\ InFlight = {}) =>
        (mpc = "done" \/ ENABLED ProgramStep)

\* C4: the error count main computes is the number of entries whose
\* subprocess exited with a nonzero status.
ErrorCountIsNonzeroExits ==
    AfterSummary => errors = Cardinality(NonzeroExits)

\* the later entry finished first and is the only one that failed
ErrorCountWitness ==
    /\ mpc = "report"
    /\ FilesOf(thread_results) = <<2, 1>>
    /\ returncode = <<0, 2>>
    /\ errors = 1

\* C5: a step in which a worker's subprocess exits with a nonzero status
\* leaves that worker alive with num_errors 1 to record, and leaves every
\* other worker where it was.
NonzeroExitStopsNobody ==
    [][\A w \in Workers :
          (/\ wpc[w] = "running"
           /\ e[w] \notin DOMAIN returncode
           /\ e[w] \in DOMAIN returncode'
           /\ returncode'[e[w]] # 0)
          => /\ wpc'[w] = "put"
             /\ num_errors'[w] = 1
             /\ \A o \in Workers \ {w} : wpc'[o] = wpc[o]]_vars

\* C6: no failure inside run_clang_tidy ends a worker thread.
ToolFailureIsolated ==
    \A w \in Workers : wpc[w] # "raised"

\* C7: when main has returned, the exit status is 0 and the last line is
\* "Done without error" exactly if the error count is 0; otherwise the exit
\* status is 1 and the last line is "Done with errors in X/Y", X the number
\* of nonzero exits and Y the size of the work set, 1 <= X <= Y.
ExitStatusAndFinalLine ==
    mpc = "done" =>
        LET last == stdout[Len(stdout)]
            X    == Cardinality(NonzeroExits)
            Y    == Len(filtered_entries)
        IN  /\ exit_status \in {0, 1}
            /\ exit_status = 0 <=> errors = 0
            /\ last = <<"Done without error">> <=> errors = 0
            /\ errors # 0 =>
                  /\ last = <<"Done with errors in", X, Y>>
                  /\ 1 <= X /\ X <= Y

\* a completed run of two entries, both failed
ExitStatusWitness ==
    /\ mpc = "done"
    /\ exit_status = 1
    /\ stdout[Len(stdout)] = <<"Done with errors in", 2, 2>>

\* C8: entries leave workq in the order of the sorted work set: the files
\* pulled so far are always a prefix of filtered_entries.
ClaimedInSchedulerOrder ==
    /\ Len(claims) <= Len(filtered_entries)
    /\ claims = SubSeq(filtered_entries, 1, Len(claims))

\* the first entry is recorded, the first worker runs the second entry and
\* the second worker waits at workq.get()
ClaimOrderWitness ==
    /\ args_threads = 2
    /\ FilesOf(Recorded) = <<1>>
    /\ e[1] = 2
    /\ wpc[1] = "running"
    /\ wpc[2] = "get"

EmptyRunReports ==
    (filtered_entries = << >> /\ AfterSummary /\ wallclock_runtime > 0) =>
        /\ mpc # "raised"
        /\ mpc = "done" =>
              /\ errors = 0
              /\ total_runtime = 0
              /\ exit_status = 0

\* C11: with a worker count of at least one, computing the CPU usage of line
\* 129 raises no division error, whatever the measured wall-clock time: a
\* wall-clock time of 0 yields a defined value.
CpuUsageNeverRaises ==
    (AfterSummary /\ args_threads >= 1) => mpc # "raised"

\* C20: when a worker's subprocess is still running and nothing else in the
\* run can move (the state the run rests in if that subprocess never exits),
\* with a second worker configured: main is blocked short of the summary, and
\* every other entry of the work set has been pulled and has its result.
HungSubprocessBlocksOnlyItself ==
    \A h \in Workers :
        (/\ args_threads >= 2
         /\ wpc[h] = "running"
         /\ ~ ENABLED (Main \/ \E w \in Workers \ {h} : Worker(w)))
        => /\ ~ AfterCollect
           /\ \A f \in WorkSet \ {e[h]} : RecordedFor(f) # {}

\* ------------------------------------------ claims about lines 68-96
FileSet(s)  == {s[i].file : i \in 1..Len(s)}
\* the orders a sequence can be presented in
Reorderings(s) ==
    {[i \in 1..Len(s) |-> s[p[i]]] :
        p \in {q \in [1..Len(s) -> 1..Len(s)] :
                  \A i, j \in 1..Len(s) : q[i] = q[j] => i = j}}
\* C12: in the scheduled order every entry of a test folder precedes every
\* entry outside one, whatever their sizes; within a tier sizes descend;
\* entries of equal tier and size are in ascending order of their paths.
ThreeLevelSort ==
    mpc = "fill" =>
        \A i, j \in 1..Len(filtered) :
            i < j =>
                LET a == filtered[i].file
                    b == filtered[j].file
                    sametier == InTestFolder(a) <=> InTestFolder(b)
                IN  /\ InTestFolder(b) => InTestFolder(a)
                    /\ sametier => st_size[a] >= st_size[b]
                    /\ (sametier /\ st_size[a] = st_size[b]) => StrLess(a, b)

\* the small file of the test folder is scheduled before a larger file
ThreeLevelSortWitness ==
    /\ mpc = "fill"
    /\ Len(filtered) = 2
    /\ filtered[1].file = F_test
    /\ st_size[F_test] < st_size[filtered[2].file]

\* C13: the scheduled sequence depends only on the set of filtered entries
\* and their sizes: sorting the work set presented in any other order gives
\* the same sequence, and so does the database read in any other order (up
\* to which record of a file read twice is the last); any two entries of the
\* work set are ordered by their keys.
SchedulingDeterministic ==
    mpc = "fill" =>
        /\ \A s \in Reorderings(filtered) : Sorted(s, st_size) = filtered
        /\ \A db \in Reorderings(entries) :
              FilesOf(WorkSetOf(db, args_filter, st_size)) = FilesOf(filtered)
        /\ \A i, j \in 1..Len(filtered) :
              i # j => \/ KeyLess(SortKey(filtered[i], st_size),
                                  SortKey(filtered[j], st_size))
                       \/ KeyLess(SortKey(filtered[j], st_size),
                                  SortKey(filtered[i], st_size))

\* two files of one tier and one size, scheduled in the order opposite to the
\* database's
SchedulingDeterministicWitness ==
    /\ mpc = "fill"
    /\ FilesOf(entries) = <<F_b, F_B>>
    /\ FilesOf(filtered) = <<F_B, F_b>>
    /\ st_size[F_b] = st_size[F_B]

\* C14: line 89 leaves one record per file, the last one of that file, and no
\* file is lost by it; the work set handed to the workers names no file twice.
NoDuplicateFiles ==
    /\ [](mpc \in {"sort", "fill"} =>
            \A i, j \in 1..Len(filtered) :
                filtered[i].file = filtered[j].file => i = j)
    /\ [](mpc = "fill" => Len(filtered_entries) = Len(filtered))
    /\ [][mpc = "dedup" =>
            /\ FileSet(filtered') = FileSet(filtered)
            /\ \A i \in 1..Len(filtered') :
                  \E k \in 1..Len(filtered) :
                      /\ filtered'[i] = filtered[k]
                      /\ \A m \in (k + 1)..Len(filtered) :
                            filtered[m].file # filtered[k].file]_vars

\* one file built for two targets: the second record is the one kept
NoDuplicateFilesWitness ==
    /\ mpc = "sort"
    /\ Len(entries) = 2
    /\ entries[1].file = entries[2].file
    /\ entries[1] # entries[2]
    /\ filtered = <<entries[2]>>

\* C15 as claimed: a loaded entry under the root is in the filtered work set
\* exactly if its relative path matches the --filter pattern (or none is
\* given) and does not begin with external/.
FilterAsClaimed ==
    mpc \in {"dedup", "sort", "fill"} =>
        \A i \in 1..Len(entries) :
            LET f == entries[i].file
            IN  UnderRoot(f) =>
                  (f \in FileSet(filtered) <=>
                      /\ args_filter = NoFilter
                            \/ Contains(RelPath(f), args_filter)
                      /\ ~ StartsWith(RelPath(f), <<"e", "x", "t", "e", "r", "n", "a", "l", "/">>))

\* C15 as amended: a loaded entry is in the filtered work set exactly if its
\* absolute path does not begin with <root>/external, does not end with
\* .pb.cc, and, when --filter is given, the lower-cased pattern is found in
\* the lower-cased absolute path.
FilterAsCoded ==
    mpc \in {"dedup", "sort", "fill"} =>
        \A i \in 1..Len(entries) :
            LET f == entries[i].file
            IN  f \in FileSet(filtered) <=>
                  /\ ~ StartsWith(f, <<"/", "R", "/", "e", "x", "t", "e", "r", "n", "a", "l">>)
                  /\ ~ EndsWith(f, <<".", "p", "b", ".", "c", "c">>)
                  /\ args_filter = NoFilter
                        \/ Contains(Lower(f), Lower(args_filter))

\* --filter B keeps b.c, which matches only with the case folded, and not
\* the generated d.pb.cc, which matches likewise
FilterWitness ==
    /\ mpc = "dedup"
    /\ args_filter = <<"B">>
    /\ FilesOf(entries) = <<F_b, F_pb>>
    /\ FilesOf(filtered) = <<F_b>>

\* C16: once an entry whose file is not under the root has been loaded, no
\* worker thread is started, no entry is handed to a worker, and the run does
\* not end with status 0.
OutsideRootAbortsBeforeScheduling ==
    (\E i \in 1..Len(entries) : ~ UnderRoot(entries[i].file)) =>
        /\ started = 0
        /\ Started = {}
        /\ claims = << >>
        /\ mpc = "done" => exit_status # 0

\* C17: with a --threads value that is no number, or a --timing value that is
\* neither a number nor all, no entry is ever handed to the analysis tool.
InvalidArgument ==
    \/ argv.threads.kind = "text"
    \/ argv.timing.kind = "text"
ConfigErrorBeforeWork == InvalidArgument => claims = << >>

\* C18: with a compilation database that is missing or is not JSON the run
\* never gets past loading: the work queue is never filled, no worker is
\* started, nothing is claimed, no line is printed, the load step can only
\* raise, and having raised the process has exit status 1.
BadDatabase == compdb.state # "ok"
LoadErrorAborts ==
    BadDatabase =>
        /\ mpc \in {"parse", "usage", "load", "load_raised"}
        /\ workq = << >>
        /\ started = 0
        /\ Started = {}
        /\ claims = << >>
        /\ stdout = << >>
        /\ entries = << >>
        /\ mpc = "load" => (ENABLED MainLoadRaises /\ ~ ENABLED MainLoad)
        /\ mpc = "load_raised" => exit_status = 1
        /\ mpc = "usage" => exit_status = 2
        /\ mpc \in {"parse", "load"} => exit_status = "running"
LoadErrorWitness ==
    /\ compdb.state = "invalid"
    /\ mpc = "load_raised"
    /\ exit_status = 1
    /\ argv.timing.kind = "all"

\* the lines of the timing report on the report stream
ReportedTimings == SelectSeq(stdout, LAMBDA l : l[1] = "timing")
Seconds(d) == d.minutes * 60 + d.seconds

\* C19: once the timing report of --timing K (an integer, or all) over n
\* results has ended, the report has min(K, n) lines (none for a K below 0), n for
\* all; the durations never rise down the report; every result without a
\* line took no longer than any listed one.
TimingListsSlowest ==
    (/\ mpc \in {"timing_raised", "report", "done", "raised"}
     /\ args_timing.kind \in {"int", "all"}) =>
        LET n == Len(thread_results)
            K == args_timing.value
            count == IF args_timing.kind = "all" THEN n
                     ELSE IF K < 0 THEN 0
                     ELSE IF K < n THEN K ELSE n
            lines == ReportedTimings
            paths == {lines[i][3] : i \in 1..Len(lines)}
        IN  /\ Len(lines) = count
            /\ \A i, j \in 1..Len(lines) :
                  i < j => Seconds(lines[i][2]) >= Seconds(lines[j][2])
            /\ \A i \in 1..n :
                  RelPath(FileName(thread_results[i].file)) \notin paths =>
                     \A j \in 1..Len(lines) :
                        thread_results[i].dt <= Seconds(lines[j][2])

\* C21: whatever the worker count, a run over a non-empty work set in which
\* no subprocess is still running, no worker was ended by an exception and
\* the measured wall-clock time is not 0 has raised no division error and is
\* never stuck short of the final status line: main has returned or some
\* thread can take a step.
AnyWorkerCountFinishes ==
    (/\ filtered_entries # << >>
     /\ InFlight = {}
     /\ \A w \in Workers : wpc[w] # "raised"
     /\ ~ (AfterSummary /\ wallclock_runtime = 0)) =>
        /\ mpc # "raised"
        /\ mpc = "done" \/ ENABLED ProgramStep

\* the sentinels on workq, and the workers that have pulled one
SentinelsQueued == CountIn(workq, None)
Returned        == {w \in Workers : wpc[w] = "returned"}

\* C22: no sentinel is on workq and no worker exists while the queue is being
\* filled; on workq no entry stands behind a sentinel; one sentinel has been
\* put per thread started, each either still queued or pulled by a worker
\* that returned on it; a worker returns only by pulling a sentinel off a
\* queue that holds no entry; once the threads are joined every started
\* worker has pulled its one sentinel and workq is empty.
SentinelDiscipline ==
    /\ [](mpc = "fill" => (Started = {} /\ workq = << >> /\ started = 0))
    /\ [](\A i, j \in 1..Len(workq) :
             (i < j /\ workq[i] = None) => workq[j] = None)
    /\ [](SentinelsQueued + Cardinality(Returned) = started)
    /\ [](Cardinality(Started) = started + (IF mpc = "sentinel" THEN 1 ELSE 0))
    /\ [](AfterJoin => (workq = << >> /\ Returned = Started))
    /\ [][\A w \in Workers :
            (wpc[w] # "returned" /\ wpc'[w] = "returned") =>
               /\ workq # << >>
               /\ \A i \in 1..Len(workq) : workq[i] = None
               /\ claims = filtered_entries
               /\ SentinelsQueued' = SentinelsQueued - 1]_vars

\* two workers have shared two entries, each has pulled one sentinel, and
\* main has joined both
SentinelWitness ==
    /\ mpc = "summary"
    /\ args_threads = 2
    /\ Len(filtered_entries) = 2
    /\ Returned = {1, 2}
    /\ workq = << >>

\* C23: in every completed run the CPU usage reported is at most 100: the sum
\* of the durations recorded is at most the number of workers times the
\* wall-clock time main measured (and is 0 when no worker was asked for); and
\* at any moment the durations recorded so far add up to no more than the
\* number of threads started times the time passed since main took its start
\* time.
CpuUsageAtMostFull ==
    /\ mpc = "done" =>
          /\ cpu_usage <= 100
          /\ args_threads >= 1 =>
                total_runtime <= args_threads * wallclock_runtime
          /\ args_threads <= 0 => total_runtime = 0
    /\ SumOf(Recorded, "dt") <= Cardinality(Started) * (now - start_time)

\* two workers were busy for the whole of the measured time
CpuUsageWitness ==
    /\ mpc = "done"
    /\ args_threads = 2
    /\ wallclock_runtime = 1
    /\ total_runtime = 2
    /\ cpu_usage = 100

\* the lines of the report stream that forward a subprocess's output, and the
\* lines main prints at the end
ForwardedFor(f) == {i \in 1..Len(stdout) : stdout[i] = <<"Error while processing", f>>}
ClosingLines ==
    {i \in 1..Len(stdout) :
        stdout[i][1] \in {"Wallclock runtime", "Done without error",
                          "Done with errors in"}}

\* C24: the output of an entry's subprocess is on the report stream, once,
\* exactly if that subprocess has exited with a nonzero status: it is there
\* from the step in which the exit is observed, hence before the entry's
\* result is recorded, and before every line main prints at the end.
OutputForwardedIffFailed ==
    /\ \A f \in WorkSet :
          /\ f \in NonzeroExits => Cardinality(ForwardedFor(f)) = 1
          /\ f \notin NonzeroExits => ForwardedFor(f) = {}
    /\ \A i \in 1..Len(Recorded) :
          Recorded[i].num_errors # 0 => ForwardedFor(Recorded[i].file) # {}
    /\ \A f \in WorkSet : \A i \in ForwardedFor(f) : \A j \in ClosingLines : i < j

\* C25 as claimed: with a --filter pattern, every retained entry under the
\* root has the pattern, letter case as given, in its path relative to the
\* root.
PatternOnRelativePathAsClaimed ==
    (mpc \in {"dedup", "sort", "fill"} /\ args_filter # NoFilter) =>
        \A f \in FileSet(filtered) :
            UnderRoot(f) => Contains(RelPath(f), args_filter)

\* C25 as amended: the step that applies a --filter pattern retains, in their
\* order, exactly the entries in whose lower-cased absolute path the
\* lower-cased pattern is found; so an entry that matches only with the case
\* folded, or only in the part of its path above the root, is retained.
FoldedAbsolute(f) == Contains(Lower(f), Lower(args_filter))
PatternOnFoldedAbsolutePath ==
    [][(mpc = "argfilter" /\ args_filter # NoFilter) =>
          /\ FileSet(filtered') = {f \in FileSet(filtered) : FoldedAbsolute(f)}
          /\ Len(filtered') =
                Cardinality({i \in 1..Len(filtered) :
                                FoldedAbsolute(filtered[i].file)})
          /\ \A i, j \in 1..Len(filtered') :
                i < j => \E k, l \in 1..Len(filtered) :
                            /\ k < l
                            /\ filtered[k] = filtered'[i]
                            /\ filtered[l] = filtered'[j]]_vars

\* --filter r keeps test/c.c, which has an r only in the root above it and
\* only with the case folded, and drops the entry outside the root, which
\* has none
PatternWitness ==
    /\ mpc = "dedup"
    /\ args_filter = <<"r">>
    /\ FilesOf(entries) = <<F_out, F_test>>
    /\ FilesOf(filtered) = <<F_test>>
====
